---- MODULE Spec2Model ----
(***************************************************************************)
(* Model of main_mnist.py: the training loop (temperature schedule,        *)
(* initial sampling, query-and-update) and the evaluation rollout          *)
(* (greedy acquisition, stacking of the per-step logits, queries needed).  *)
(*                                                                         *)
(* Patch contents are abstracted to one value per patch: the binarised     *)
(* pixel value -1 or 1 of the transform, and 0 for a patch not shown.      *)
(* Logits are abstracted to the maximum class probability, in percent.     *)
(* Temperatures are in tenths, kept as exact fractions <<num, den>>.       *)
(* The mask width QUERY_ALL (676) is scaled down to NumPatches.            *)
(***************************************************************************)
EXTENDS Integers, Sequences, FiniteSets, TLC

VARIABLES pc, args, epoch, batch, querier_tau,
          images, num_queries, step, mask, masked_image,
          test_images, test_inputs, i, logits_list, cls_revealed,
          logits, queries_needed, pred_index

vars == <<pc, args, epoch, batch, querier_tau,
          images, num_queries, step, mask, masked_image,
          test_images, test_inputs, i, logits_list, cls_revealed,
          logits, queries_needed, pred_index>>

trainVars == <<images, num_queries, step, mask, masked_image>>
evalVars == <<test_images, test_inputs, i, logits_list, cls_revealed,
              logits, queries_needed, pred_index>>

----------------------------------------------------------------------------
(* Bounds *)

NumPatches == 3
BatchSize == 2
MaxEpochs == 3
MaxQueriesTest == 3

(* Program constants *)

QUERY_ALL == 676
PATCH_SIZE == 3
THRESHOLD == 85
ImageSide == 28

Samples == 1..BatchSize
Patches == 0..(NumPatches - 1)

Min(a, b) == IF a < b THEN a ELSE b

None == <<>>

----------------------------------------------------------------------------
(* Tensors *)

Zeros == [n \in Samples |-> [p \in Patches |-> 0]]

Ones(row) == Cardinality({p \in Patches : row[p] = 1})

Revealed(row) == Cardinality({p \in Patches : row[p] # 0})

OneHot(k) == [p \in Patches |-> IF p = k THEN 1 ELSE 0]

\* torch.argmax: the first index holding the maximum
ArgMax(vec) ==
  CHOOSE k \in Patches :
    /\ \A j \in Patches : vec[j] <= vec[k]
    /\ \A j \in Patches : j < k => vec[j] < vec[k]

\* batch b of a dataset: the transform maps every pixel to -1 or 1
Batch(b) ==
  [n \in Samples |-> [p \in Patches |-> IF (p + n + b) % 2 = 0 THEN 1 ELSE -1]]

\* the batches each loader yields, in order
TrainLoader == <<0, 1>>
TestLoader == <<2>>

----------------------------------------------------------------------------
(* Collaborators: ops and arch.mnist *)

Unqueried(row) == {p \in Patches : row[p] = 0}

\* QuerierMNIST.forward on one sample: a one-hot vector on a patch that is not
\* yet in the mask; with every patch in the mask, on any patch
querier_row(input, row) ==
  IF Unqueried(row) = {}
  THEN {OneHot(k) : k \in Patches}
  ELSE {OneHot(k) : k \in Unqueried(row)}

querier(inputs, m) ==
  LET rows == [n \in Samples |-> querier_row(inputs[n], m[n])]
  IN  {qv \in [Samples -> {OneHot(k) : k \in Patches}] :
         \A n \in Samples : qv[n] \in rows[n]}

\* ops.get_patch_mask: the image's patch where the mask is 1, the placeholder elsewhere
get_patch_mask(m, imgs) ==
  [n \in Samples |-> [p \in Patches |-> IF m[n][p] = 1 THEN imgs[n][p] ELSE 0]]

\* ops.update_masked_image: the content of the patch of maximum weight is copied in
update_masked_image(mimg, imgs, qv) ==
  [n \in Samples |->
     LET k == ArgMax(qv[n]) IN [mimg[n] EXCEPT ![k] = imgs[n][k]]]

random_sampling_upto(max_queries, P, N) ==
  {m \in [1..N -> [0..(P - 1) -> {0, 1}]] :
     \A n \in 1..N :
        Cardinality({p \in 0..(P - 1) : m[n][p] = 1}) <= Min(max_queries, P)}

\* ops.random_sampling: per row, max_queries distinct patches out of P
random_sampling(max_queries, P, N) ==
  {m \in [1..N -> [0..(P - 1) -> {0, 1}]] :
     \A n \in 1..N :
        Cardinality({p \in 0..(P - 1) : m[n][p] = 1}) = Min(max_queries, P)}

adaptive_step_unguarded(m, mimg, imgs, qv, budgets, s) ==
  [mask |-> [n \in Samples |-> [m[n] EXCEPT ![ArgMax(qv[n])] = 1]],
   image |-> [n \in Samples |->
               LET k == ArgMax(qv[n]) IN [mimg[n] EXCEPT ![k] = imgs[n][k]]]]

\* one step of ops.adaptive_sampling: the selected patch is revealed for the
\* samples that have not reached their budget, the others are held fixed
adaptive_step(m, mimg, imgs, qv, budgets, s) ==
  [mask |-> [n \in Samples |->
               IF s < budgets[n]
               THEN [m[n] EXCEPT ![ArgMax(qv[n])] = 1]
               ELSE m[n]],
   image |-> [n \in Samples |->
               IF s < budgets[n]
               THEN LET k == ArgMax(qv[n]) IN [mimg[n] EXCEPT ![k] = imgs[n][k]]
               ELSE mimg[n]]]

MaxBudget(budgets) ==
  CHOOSE b \in {budgets[n] : n \in Samples} : \A n \in Samples : budgets[n] <= b

\* ClassifierMNIST.forward: any confidence for any input
ConfSet == {85, 91}

classifier(inputs) == [Samples -> ConfSet]

RECURSIVE FirstAbove(_, _, _)
FirstAbove(seq, threshold, t) ==
  IF t >= Len(seq) THEN Len(seq)
  ELSE IF seq[t] > threshold THEN t
  ELSE FirstAbove(seq, threshold, t + 1)

\* ops.compute_queries_needed: per sample, the first step whose maximum class
\* probability exceeds the threshold, the last step when none does
compute_queries_needed(lg, threshold) ==
  [n \in DOMAIN lg |-> FirstAbove(lg[n], threshold, 1)]

----------------------------------------------------------------------------
(* Temperature schedule *)

FracEq(a, b) == a[1] * b[2] = b[1] * a[2]
FracLeq(a, b) == a[1] * b[2] <= b[1] * a[2]

linspace_no_endpoint(start, stop, num) ==
  [k \in 1..num |-> <<start * num + (k - 1) * (stop - start), num>>]

\* np.linspace(start, stop, num): step (stop - start) / (num - 1), the last
\* value set to stop when num > 1; the single value start when num = 1
linspace(start, stop, num) ==
  LET div == num - 1
  IN  [k \in 1..num |->
         IF div > 0
         THEN IF k = num THEN <<stop * div, div>>
              ELSE <<start * div + (k - 1) * (stop - start), div>>
         ELSE <<start, 1>>]

tau_vals == linspace(args.tau_start, args.tau_end, args.epochs)

----------------------------------------------------------------------------
(* Inputs *)

TauPairs == {<<10, 2>>, <<2, 10>>}

ArgsSet ==
  { [epochs |-> e, tau_start |-> t[1], tau_end |-> t[2], sampling |-> s,
     max_queries |-> k, max_queries_test |-> q, patch_size |-> 4] :
       e \in 1..MaxEpochs, t \in TauPairs, s \in {"adaptive", "random"},
       k \in 1..(NumPatches + 1), q \in 1..MaxQueriesTest }

\* the adaptive branch never reads max_queries, the training loop never reads
\* max_queries_test
\* the schedule with the default sampling, the samplings with one epoch of the
\* default schedule
TrainArgs ==
  {a \in ArgsSet :
     /\ a.max_queries_test = 1
     /\ a.sampling = "adaptive" => a.max_queries = NumPatches
     /\ \/ a.sampling = "random" /\ a.max_queries = NumPatches
        \/ a.epochs = 1 /\ a.tau_start = 10 /\ a.tau_end = 2}

EvalArgs ==
  {a \in ArgsSet : /\ a.epochs = 1 /\ a.tau_start = 10 /\ a.tau_end = 2
                   /\ a.sampling = "random" /\ a.max_queries = NumPatches}

----------------------------------------------------------------------------
(* Training: main, lines 46-127 *)

InitTrain ==
  /\ pc = "setup"
  /\ args \in TrainArgs
  /\ epoch = 0
  /\ batch = 0
  /\ querier_tau = None
  /\ images = None /\ num_queries = None /\ step = 0
  /\ mask = None /\ masked_image = None
  /\ test_images = None /\ test_inputs = None /\ i = 0
  /\ logits_list = <<>> /\ cls_revealed = <<>>
  /\ logits = None /\ queries_needed = None /\ pred_index = None

\* lines 47-89: constants, data, models (the querier built with tau_start),
\* optimizer, schedule; nothing is validated
Setup ==
  /\ pc = "setup"
  /\ querier_tau' = <<args.tau_start, 1>>
  /\ pc' = "train"
  /\ UNCHANGED <<args, epoch, batch, trainVars, evalVars>>

\* lines 93-97
TrainBatchStart ==
  /\ pc = "train"
  /\ batch < Len(TrainLoader)
  /\ images' = Batch(TrainLoader[batch + 1])
  /\ querier_tau' = tau_vals[epoch + 1]
  /\ pc' = "sample"
  /\ UNCHANGED <<args, epoch, batch, num_queries, step, mask, masked_image,
                 evalVars>>

RandomSamplingCall == random_sampling(args.max_queries, NumPatches, BatchSize)

\* lines 103-105
SampleRandom ==
  /\ pc = "sample"
  /\ args.sampling = "random"
  /\ \E m \in RandomSamplingCall :
        /\ mask' = m
        /\ masked_image' = get_patch_mask(m, images)
  /\ pc' = "query"
  /\ UNCHANGED <<args, epoch, batch, querier_tau, images, num_queries, step,
                 evalVars>>

\* torch.randint(low=0, high=QUERY_ALL, size=(N,))
DrawNumQueries == [Samples -> 0..(NumPatches - 1)]

\* lines 100-102, entry of ops.adaptive_sampling
AdaptiveStart ==
  /\ pc = "sample"
  /\ args.sampling = "adaptive"
  /\ \E nq \in DrawNumQueries : num_queries' = nq
  /\ mask' = Zeros
  /\ masked_image' = Zeros
  /\ step' = 0
  /\ pc' = "adaptive"
  /\ UNCHANGED <<args, epoch, batch, querier_tau, images, evalVars>>

AdaptiveStep ==
  /\ pc = "adaptive"
  /\ step < MaxBudget(num_queries)
  /\ \E qv \in querier(masked_image, mask) :
        LET r == adaptive_step(mask, masked_image, images, qv, num_queries, step)
        IN  /\ mask' = r.mask
            /\ masked_image' = r.image
  /\ step' = step + 1
  /\ UNCHANGED <<pc, args, epoch, batch, querier_tau, images, num_queries,
                 evalVars>>

AdaptiveReturn ==
  /\ pc = "adaptive"
  /\ step >= MaxBudget(num_queries)
  /\ pc' = "query"
  /\ UNCHANGED <<args, epoch, batch, querier_tau, trainVars, evalVars>>

\* lines 108-109: the mask is not updated
QueryAndUpdate ==
  /\ pc = "query"
  /\ \E query_vec \in querier(masked_image, mask) :
        masked_image' = update_masked_image(masked_image, images, query_vec)
  /\ pc' = "predict"
  /\ UNCHANGED <<args, epoch, batch, querier_tau, images, num_queries, step,
                 mask, evalVars>>

\* lines 112-126; the batch's tensors are rebound before the next batch reads them
Predict ==
  /\ pc = "predict"
  /\ batch' = batch + 1
  /\ images' = None /\ num_queries' = None /\ step' = 0
  /\ mask' = None /\ masked_image' = None
  /\ pc' = "train"
  /\ UNCHANGED <<args, epoch, querier_tau, evalVars>>

\* lines 127-172: scheduler step, checkpoint, evaluation (modelled by SpecEval),
\* next epoch
EpochEnd ==
  /\ pc = "train"
  /\ batch = Len(TrainLoader)
  /\ epoch' = epoch + 1
  /\ batch' = 0
  /\ pc' = IF epoch + 1 < args.epochs THEN "train" ELSE "done"
  /\ UNCHANGED <<args, querier_tau, trainVars, evalVars>>

NextTrain ==
  \/ Setup
  \/ TrainBatchStart
  \/ SampleRandom
  \/ AdaptiveStart
  \/ AdaptiveStep
  \/ AdaptiveReturn
  \/ QueryAndUpdate
  \/ Predict
  \/ EpochEnd

SpecTrain == InitTrain /\ [][NextTrain]_vars

----------------------------------------------------------------------------
(* Evaluation of one test batch: main, lines 141-164 *)

InitEval ==
  /\ pc = "eval"
  /\ args \in EvalArgs
  /\ epoch = 0
  /\ batch = Len(TrainLoader)
  /\ querier_tau = tau_vals[1]
  /\ images = None /\ num_queries = None /\ step = 0
  /\ mask = None /\ masked_image = None
  /\ test_images = None /\ test_inputs = None /\ i = 0
  /\ logits_list = <<>> /\ cls_revealed = <<>>
  /\ logits = None /\ queries_needed = None /\ pred_index = None

\* lines 141-149
EvalBatchStart ==
  /\ pc = "eval"
  /\ \E b \in 1..Len(TestLoader) : test_images' = Batch(TestLoader[b])
  /\ test_inputs' = Zeros
  /\ mask' = Zeros
  /\ logits_list' = <<>>
  /\ cls_revealed' = <<>>
  /\ i' = 0
  /\ pc' = "rollout"
  /\ UNCHANGED <<args, epoch, batch, querier_tau, images, num_queries, step,
                 masked_image, logits, queries_needed, pred_index>>

QuerierCallNoMask(inputs, m) == querier(inputs, Zeros)

\* line 151
QuerierCall(inputs, m) == querier(inputs, m)

SetMaskOverwrite(m, qv) == [n \in Samples |-> OneHot(ArgMax(qv[n]))]

\* line 153: mask[np.arange(N), query_vec.argmax(dim=1)] = 1.0
SetMask(m, qv) == [n \in Samples |-> [m[n] EXCEPT ![ArgMax(qv[n])] = 1]]

\* lines 151-156. cls_revealed records, per classifier call, how many patches
\* its argument shows. The list queries (line 156) is written and never read.
RolloutStep ==
  /\ pc = "rollout"
  /\ i < args.max_queries_test
  /\ \E query_vec \in QuerierCall(test_inputs, mask) :
       \E label_logits \in classifier(test_inputs) :
          /\ cls_revealed' =
                Append(cls_revealed, [n \in Samples |-> Revealed(test_inputs[n])])
          /\ mask' = SetMask(mask, query_vec)
          /\ test_inputs' = update_masked_image(test_inputs, test_images, query_vec)
          /\ logits_list' = Append(logits_list, label_logits)
  /\ i' = i + 1
  /\ UNCHANGED <<pc, args, epoch, batch, querier_tau, images, num_queries, step,
                 masked_image, test_images, logits, queries_needed, pred_index>>

StackOnly(l) == l

\* line 159: torch.stack(logits).permute(1, 0, 2)
StackPermute(l) == [n \in Samples |-> [t \in 1..Len(l) |-> l[t][n]]]

LookupIndexOffByOne(q) == q

\* line 161: the step index queries_needed - 1
LookupIndex(q) == q - 1

\* lines 157-164
StopCriterion ==
  /\ pc = "rollout"
  /\ i = args.max_queries_test
  /\ LET lg == StackPermute(logits_list)
         qn == compute_queries_needed(lg, THRESHOLD)
     IN  /\ logits' = lg
         /\ queries_needed' = qn
         /\ pred_index' = [n \in DOMAIN qn |-> LookupIndex(qn[n])]
  /\ pc' = "done"
  /\ UNCHANGED <<args, epoch, batch, querier_tau, images, num_queries, step,
                 mask, masked_image, test_images, test_inputs, i,
                 logits_list, cls_revealed>>

NextEval ==
  \/ EvalBatchStart
  \/ RolloutStep
  \/ StopCriterion

SpecEval == InitEval /\ [][NextEval]_vars

----------------------------------------------------------------------------
(* Properties *)

InRollout == pc \in {"adaptive", "rollout"}

TrainingBody == pc \in {"sample", "adaptive", "query", "predict"}

Sampled == pc \in {"query", "predict"}

\* C1: within a rollout (the evaluation rollout, the adaptive-sampling rollout)
\* a mask entry that is 1 is still 1 after every later step.
MaskMonotone ==
  [][InRollout =>
       \A n \in Samples : \A p \in Patches : mask[n][p] = 1 => mask'[n][p] = 1]_vars

MaskMonotoneWitness ==
  /\ pc = "rollout"
  /\ i >= 2
  /\ \A n \in Samples : Ones(mask[n]) >= 2

\* the spec's example: maximum class probabilities of one sample over five steps
ScenarioLogits == << <<20, 40, 60, 91, 95>> >>

\* C2: per sample, queries_needed is the smallest 1-based step whose maximum
\* class probability exceeds the threshold, and the number of steps
\* max_queries_test when no step does; the example gives 4 at 0.85, 5 at 0.99.
QueriesNeededFirstCrossing ==
  /\ compute_queries_needed(ScenarioLogits, 85) = <<4>>
  /\ compute_queries_needed(ScenarioLogits, 99) = <<5>>
  /\ pc = "done" =>
       /\ DOMAIN queries_needed = Samples
       /\ \A n \in Samples :
            LET hits == {t \in 1..Len(logits_list) : logits_list[t][n] > THRESHOLD}
            IN  IF hits = {}
                THEN queries_needed[n] = args.max_queries_test
                ELSE /\ queries_needed[n] \in hits
                     /\ \A t \in hits : queries_needed[n] <= t

QueriesNeededWitness ==
  /\ pc = "done"
  /\ args.max_queries_test = 3
  /\ \E n \in Samples :
       /\ queries_needed[n] = 2
       /\ logits_list[3][n] > THRESHOLD
  /\ \E n \in Samples :
       /\ queries_needed[n] = 3
       /\ \A t \in 1..3 : logits_list[t][n] <= THRESHOLD

\* C3: every queries_needed value lies in 1..max_queries_test, and the lookup
\* logits[n, queries_needed[n] - 1] addresses a step the rollout recorded.
StoppingBounded ==
  pc = "done" =>
    \A n \in Samples :
      /\ queries_needed[n] \in 1..args.max_queries_test
      /\ Len(logits[n]) = Len(logits_list)
      /\ pred_index[n] \in 0..(Len(logits[n]) - 1)

StoppingBoundedWitness ==
  /\ pc = "done"
  /\ args.max_queries_test >= 2
  /\ \E n \in Samples : queries_needed[n] = 1 /\ pred_index[n] = 0
  /\ \E n \in Samples :
       /\ queries_needed[n] = args.max_queries_test
       /\ \A t \in 1..Len(logits[n]) : logits[n][t] <= THRESHOLD

\* C4: with budgets drawn from 0..P-1, adaptive sampling leaves sample n with
\* exactly num_queries[n] ones: after s steps it has min(s, num_queries[n]), so a
\* sample at its budget is held while the others continue.
AdaptiveBudgetExact ==
  /\ pc = "adaptive" =>
       \A n \in Samples : Ones(mask[n]) = Min(step, num_queries[n])
  /\ (Sampled /\ args.sampling = "adaptive") =>
       \A n \in Samples : Ones(mask[n]) = num_queries[n]

AdaptiveBudgetWitness ==
  /\ pc = "query"
  /\ args.sampling = "adaptive"
  /\ \E n \in Samples : num_queries[n] = 0 /\ Ones(mask[n]) = 0
  /\ \E n \in Samples : num_queries[n] = 2 /\ Ones(mask[n]) = 2

\* C5: random_sampling(k, P, n) gives every row exactly min(k, P) ones; with
\* k >= P the mask is all ones.
RandomBudgetExact ==
  (Sampled /\ args.sampling = "random") =>
    \A n \in Samples :
      /\ Ones(mask[n]) = Min(args.max_queries, NumPatches)
      /\ args.max_queries >= NumPatches => \A p \in Patches : mask[n][p] = 1

RandomBudgetWitness ==
  /\ pc = "query"
  /\ args.sampling = "random"
  /\ args.max_queries > NumPatches
  /\ \A n \in Samples : Ones(mask[n]) = NumPatches

\* C6: at every point of a training step the partial image is what
\* (image, mask) gives: the image's patch where the mask is 1, the placeholder
\* where it is 0.
RevealedConsistent ==
  pc \in {"adaptive", "query", "predict"} =>
    masked_image = get_patch_mask(mask, images)

\* C7: in the evaluation rollout every step selects a patch whose mask entry is
\* 0, so after t <= P steps each sample's mask holds t revealed patches.
SelectionExclusive ==
  pc \in {"rollout", "done"} =>
    \A n \in Samples : i <= NumPatches => Ones(mask[n]) = i

SelectionExclusiveWitness ==
  /\ pc = "rollout"
  /\ i = 2
  /\ \A n \in Samples : Ones(mask[n]) = 2 /\ Unqueried(mask[n]) # {}

TauMonotone ==
  \A k \in 1..(args.epochs - 1) :
    IF args.tau_end <= args.tau_start
    THEN FracLeq(tau_vals[k + 1], tau_vals[k])
    ELSE FracLeq(tau_vals[k], tau_vals[k + 1])

\* C8 as stated: for E >= 1 epochs the querier's temperature is tau_start in
\* the first epoch, tau_end in the last, monotone in between, and throughout a
\* batch the value the training loop set for the epoch.
TemperatureSchedule ==
  TrainingBody =>
    /\ querier_tau = tau_vals[epoch + 1]
    /\ epoch = 0 => FracEq(querier_tau, <<args.tau_start, 1>>)
    /\ epoch = args.epochs - 1 => FracEq(querier_tau, <<args.tau_end, 1>>)
    /\ TauMonotone

\* C8 amended: the last epoch runs at tau_end when E >= 2; a run of one epoch
\* runs at tau_start.
TemperatureScheduleFromTwoEpochs ==
  TrainingBody =>
    /\ querier_tau = tau_vals[epoch + 1]
    /\ epoch = 0 => FracEq(querier_tau, <<args.tau_start, 1>>)
    /\ (epoch = args.epochs - 1 /\ args.epochs >= 2) =>
          FracEq(querier_tau, <<args.tau_end, 1>>)
    /\ TauMonotone

TemperatureWitness ==
  /\ pc = "predict"
  /\ args.epochs = 3
  /\ epoch = 1
  /\ batch = 1
  /\ querier_tau = <<12, 2>>

GeometryValid(patch_size) ==
  /\ ImageSide % patch_size = 0
  /\ QUERY_ALL = (ImageSide \div patch_size) * (ImageSide \div patch_size)

\* C9: no batch is processed under a geometry in which the patch size does not
\* divide the image side or P is not (side / patch_size)^2.
GeometryValidated == TrainingBody => GeometryValid(PATCH_SIZE)

\* C10: the logits recorded for step t (1-based) are computed from an input
\* that shows exactly t patches.
LogitsAfterReveal ==
  \A t \in 1..Len(cls_revealed) : \A n \in Samples : cls_revealed[t][n] = t

====
